---------------------------- MODULE Spec2Model ----------------------------
(***************************************************************************)
(* Model of scripts/analyze_econ_chains.py: the aggregation of one dump    *)
(* into per-good and per-facility-type metrics and the classification of   *)
(* each production chain.                                                  *)
(*                                                                         *)
(* Numbers.  The program works on Python floats.  The model works on       *)
(* integers and on exact fractions [n, d]: a quantity of the dump is an    *)
(* integer number of units, a ratio the program computes by a division is  *)
(* the fraction of its operands, and a comparison of a ratio with a        *)
(* decimal threshold is a cross-multiplication (0.7 is 7/10).  A fraction  *)
(* with d = 0 stands for math.inf.                                         *)
(***************************************************************************)
EXTENDS Integers, Naturals, Sequences, FiniteSets, TLC

(***************************************************************************)
(* Exact fractions standing for the program's float ratios.                *)
(***************************************************************************)
Frac(n, d) == [n |-> n, d |-> d]

FZero == Frac(0, 1)

FOne == Frac(1, 1)

\* math.inf
FInf == Frac(1, 0)

IsInf(f) == f.d = 0

\* f >= a/b, f < a/b, f <= a/b for a fraction f with f.d >= 0 and b > 0
FGe(f, a, b) == IF f.d = 0 THEN TRUE ELSE f.n * b >= a * f.d

FLt(f, a, b) == IF f.d = 0 THEN FALSE ELSE f.n * b < a * f.d

FLe(f, a, b) == IF f.d = 0 THEN FALSE ELSE f.n * b <= a * f.d

\* f * k, f / k (k > 0) and f + g for finite fractions
FMul(f, k) == Frac(f.n * k, f.d)

FDiv(f, k) == Frac(f.n, f.d * k)

FAdd(f, g) == Frac(f.n * g.d + g.n * f.d, f.d * g.d)

(***************************************************************************)
(* JSON leaf values of the dump: a number, null, or a string that is not   *)
(* a number.  A dict is a function on the set of its keys.                 *)
(***************************************************************************)
Num(n) == [kind |-> "num", num |-> n]

\* a string that holds the number n, and the booleans: float() converts them
NumStr(n) == [kind |-> "numstr", num |-> n]

Bool(b) == [kind |-> "bool", num |-> IF b THEN 1 ELSE 0]

Null == [kind |-> "null", num |-> 0]

Str == [kind |-> "str", num |-> 0]

\* d.get(k, default)
Get(d, k, default) == IF k \in DOMAIN d THEN d[k] ELSE default

\* {} : the dict without keys
EmptyDict == [k \in {} |-> 0]

\* d.pop(k, default): the dict without the key
after_pop(d, k, default) == [x \in DOMAIN d \ {k} |-> d[x]]

\* d.setdefault(k, default): the dict with the key, inserted if absent
after_setdefault(d, k, default) ==
    IF k \in DOMAIN d THEN d ELSE (k :> default) @@ d

\* the dict d after d.get(k, default): a lookup inserts and removes nothing
after_get(d, k, default) == d

\* the dict d after a d.get of every key of the sequence keys
RECURSIVE after_gets(_, _, _)
after_gets(d, keys, default) ==
    IF keys = << >> THEN d
    ELSE after_gets(after_get(d, Head(keys), default), Tail(keys), default)

\* safe_float: None and unparsable values give 0.0
\* safe_float whose fallback is 1.0
safe_float_one(value) ==
    IF value.kind = "null" THEN 1
    ELSE IF value.kind \in {"num", "numstr", "bool"} THEN value.num
    ELSE 1

safe_float(value) ==
    IF value.kind = "null" THEN 0
    ELSE IF value.kind \in {"num", "numstr", "bool"} THEN value.num
    ELSE 0

(***************************************************************************)
(* GoodMetrics and its derived ratios.                                     *)
(***************************************************************************)
GoodMetrics ==
    [supply |-> 0, demand |-> 0, volume |-> 0, prices |-> << >>,
     active_markets |-> 0, short_markets |-> 0, excess_markets |-> 0]

\* demand_over_supply without math.inf
demand_over_supply_no_inf(gm) ==
    IF gm.supply <= 0 THEN FZero ELSE Frac(gm.demand, gm.supply)

demand_over_supply(gm) ==
    IF gm.supply <= 0
    THEN (IF gm.demand > 0 THEN FInf ELSE FZero)
    ELSE Frac(gm.demand, gm.supply)

\* supply_over_demand without math.inf
supply_over_demand_no_inf(gm) ==
    IF gm.demand <= 0 THEN FZero ELSE Frac(gm.supply, gm.demand)

supply_over_demand(gm) ==
    IF gm.demand <= 0
    THEN (IF gm.supply > 0 THEN FInf ELSE FZero)
    ELSE Frac(gm.supply, gm.demand)

\* fill_ratio that is 0.0 without demand
fill_ratio_unfilled(gm) ==
    IF gm.demand <= 0 THEN FZero ELSE Frac(gm.volume, gm.demand)

fill_ratio(gm) ==
    IF gm.demand <= 0 THEN FOne ELSE Frac(gm.volume, gm.demand)

short_fraction(gm) ==
    IF gm.active_markets <= 0 THEN FZero
    ELSE Frac(gm.short_markets, gm.active_markets)

excess_fraction(gm) ==
    IF gm.active_markets <= 0 THEN FZero
    ELSE Frac(gm.excess_markets, gm.active_markets)

RECURSIVE SumSeq(_)
SumSeq(s) == IF s = << >> THEN 0 ELSE Head(s) + SumSeq(Tail(s))

RECURSIVE SumSquares(_)
SumSquares(s) == IF s = << >> THEN 0 ELSE Head(s) * Head(s) + SumSquares(Tail(s))

\* price_cv is pstdev(prices) / mean(prices), a square root; the model keeps
\* its square, variance / mean^2 = (n * sum(p^2) - sum(p)^2) / sum(p)^2, and
\* compares it with the square of a threshold (price_cv is never negative).
price_cv_squared(gm) ==
    IF gm.prices = << >> THEN FZero
    ELSE LET n == Len(gm.prices)
             s == SumSeq(gm.prices)
             q == SumSquares(gm.prices)
         IN  IF s <= 0 THEN FZero
             ELSE Frac(n * q - s * s, s * s)

(***************************************************************************)
(* FacilityMetrics and its derived ratios.                                 *)
(***************************************************************************)
FacilityMetrics ==
    [count |-> 0, active_count |-> 0, workers |-> 0, labor_required |-> 0,
     efficiency_sum |-> 0, loss_days_sum |-> 0, wage_debt_sum |-> 0]

active_ratio(fm) ==
    IF fm.count > 0 THEN Frac(fm.active_count, fm.count) ELSE FZero

\* labor_fill that only guards against a labor_required of 0
labor_fill_nonzero(fm) ==
    IF fm.labor_required # 0 THEN Frac(fm.workers, fm.labor_required) ELSE FZero

labor_fill(fm) ==
    IF fm.labor_required > 0 THEN Frac(fm.workers, fm.labor_required) ELSE FZero

avg_efficiency(fm) ==
    IF fm.count > 0 THEN Frac(fm.efficiency_sum, fm.count) ELSE FZero

(***************************************************************************)
(* The chain registry.  The program's registry holds 13 chains; the model  *)
(* keeps two of them as they are in the source: Food (three stages,        *)
(* several raw goods and several facility types per stage) and Salt (two   *)
(* stages).                                                                *)
(***************************************************************************)
ChainStage(label, goods, facilities) ==
    [label |-> label, goods |-> goods, facilities |-> facilities]

ChainDef(name, stages) == [name |-> name, stages |-> stages]

final_good(chain) == chain.stages[Len(chain.stages)].goods[1]

raw_goods(chain) == chain.stages[1].goods

CHAIN_DEFS ==
    << ChainDef("Food",
         << ChainStage("Raw grain", <<"wheat", "rye", "barley", "rice_grain">>,
                       <<"farm", "rye_farm", "barley_farm", "rice_paddy">>),
            ChainStage("Flour", <<"flour">>, <<"mill", "rye_mill", "barley_mill">>),
            ChainStage("Bread", <<"bread">>, <<"bakery", "rice_mill">>) >>),
       ChainDef("Salt",
         << ChainStage("Raw salt", <<"raw_salt">>, <<"salt_works">>),
            ChainStage("Salt", <<"salt">>, <<"salt_warehouse">>) >>) >>

(***************************************************************************)
(* aggregate_goods: fold every market's per-good record into GoodMetrics.  *)
(***************************************************************************)
\* add_payload that takes a market with a volume for active
add_payload_traded(gm, payload) ==
    LET supply == safe_float(Get(payload, "supplyOffered", Get(payload, "supply", Num(0))))
        demand == safe_float(Get(payload, "demand", Num(0)))
        volume == safe_float(Get(payload, "volume", Num(0)))
        price  == safe_float(Get(payload, "price", Num(0)))
        active == supply > 0 \/ demand > 0 \/ volume > 0
        short  == active /\ demand * 100 > supply * 105
        excess == active /\ ~short /\ supply * 100 > demand * 105
    IN  [supply |-> gm.supply + supply,
         demand |-> gm.demand + demand,
         volume |-> gm.volume + volume,
         prices |-> Append(gm.prices, price),
         active_markets |-> gm.active_markets + (IF active THEN 1 ELSE 0),
         short_markets  |-> gm.short_markets + (IF short THEN 1 ELSE 0),
         excess_markets |-> gm.excess_markets + (IF excess THEN 1 ELSE 0)]

\* add_payload with else in place of elif: every active market that is not
\* short counts as in excess
add_payload_else(gm, payload) ==
    LET supply == safe_float(Get(payload, "supplyOffered", Get(payload, "supply", Num(0))))
        demand == safe_float(Get(payload, "demand", Num(0)))
        volume == safe_float(Get(payload, "volume", Num(0)))
        price  == safe_float(Get(payload, "price", Num(0)))
        active == supply > 0 \/ demand > 0
        short  == active /\ demand * 100 > supply * 105
        excess == active /\ ~short
    IN  [supply |-> gm.supply + supply,
         demand |-> gm.demand + demand,
         volume |-> gm.volume + volume,
         prices |-> Append(gm.prices, price),
         active_markets |-> gm.active_markets + (IF active THEN 1 ELSE 0),
         short_markets  |-> gm.short_markets + (IF short THEN 1 ELSE 0),
         excess_markets |-> gm.excess_markets + (IF excess THEN 1 ELSE 0)]

\* add_payload with the short and excess tests outside the active test
add_payload_unnested(gm, payload) ==
    LET supply == safe_float(Get(payload, "supplyOffered", Get(payload, "supply", Num(0))))
        demand == safe_float(Get(payload, "demand", Num(0)))
        volume == safe_float(Get(payload, "volume", Num(0)))
        price  == safe_float(Get(payload, "price", Num(0)))
        active == supply > 0 \/ demand > 0
        short  == demand * 100 > supply * 105
        excess == ~short /\ supply * 100 > demand * 105
    IN  [supply |-> gm.supply + supply,
         demand |-> gm.demand + demand,
         volume |-> gm.volume + volume,
         prices |-> Append(gm.prices, price),
         active_markets |-> gm.active_markets + (IF active THEN 1 ELSE 0),
         short_markets  |-> gm.short_markets + (IF short THEN 1 ELSE 0),
         excess_markets |-> gm.excess_markets + (IF excess THEN 1 ELSE 0)]

\* add_payload with the short and excess tests on the running sums
add_payload_running(gm, payload) ==
    LET supply == safe_float(Get(payload, "supplyOffered", Get(payload, "supply", Num(0))))
        demand == safe_float(Get(payload, "demand", Num(0)))
        volume == safe_float(Get(payload, "volume", Num(0)))
        price  == safe_float(Get(payload, "price", Num(0)))
        active == supply > 0 \/ demand > 0
        short  == active /\ (gm.demand + demand) * 100 > (gm.supply + supply) * 105
        excess == active /\ ~short /\ (gm.supply + supply) * 100 > (gm.demand + demand) * 105
    IN  [supply |-> gm.supply + supply,
         demand |-> gm.demand + demand,
         volume |-> gm.volume + volume,
         prices |-> Append(gm.prices, price),
         active_markets |-> gm.active_markets + (IF active THEN 1 ELSE 0),
         short_markets  |-> gm.short_markets + (IF short THEN 1 ELSE 0),
         excess_markets |-> gm.excess_markets + (IF excess THEN 1 ELSE 0)]

\* add_payload that falls back on supply when supplyOffered is null
add_payload_fallback(gm, payload) ==
    LET offered == Get(payload, "supplyOffered", Null)
        supply == safe_float(IF offered = Null THEN Get(payload, "supply", Num(0)) ELSE offered)
        demand == safe_float(Get(payload, "demand", Num(0)))
        volume == safe_float(Get(payload, "volume", Num(0)))
        price  == safe_float(Get(payload, "price", Num(0)))
        active == supply > 0 \/ demand > 0
        short  == active /\ demand * 100 > supply * 105
        excess == active /\ ~short /\ supply * 100 > demand * 105
    IN  [supply |-> gm.supply + supply,
         demand |-> gm.demand + demand,
         volume |-> gm.volume + volume,
         prices |-> Append(gm.prices, price),
         active_markets |-> gm.active_markets + (IF active THEN 1 ELSE 0),
         short_markets  |-> gm.short_markets + (IF short THEN 1 ELSE 0),
         excess_markets |-> gm.excess_markets + (IF excess THEN 1 ELSE 0)]

\* the body of the inner loop for one good of one market (lines 255-270)
add_payload(gm, payload) ==
    LET supply == safe_float(Get(payload, "supplyOffered", Get(payload, "supply", Num(0))))
        demand == safe_float(Get(payload, "demand", Num(0)))
        volume == safe_float(Get(payload, "volume", Num(0)))
        price  == safe_float(Get(payload, "price", Num(0)))
        active == supply > 0 \/ demand > 0
        short  == active /\ demand * 100 > supply * 105
        excess == active /\ ~short /\ supply * 100 > demand * 105
    IN  [supply |-> gm.supply + supply,
         demand |-> gm.demand + demand,
         volume |-> gm.volume + volume,
         prices |-> Append(gm.prices, price),
         active_markets |-> gm.active_markets + (IF active THEN 1 ELSE 0),
         short_markets  |-> gm.short_markets + (IF short THEN 1 ELSE 0),
         excess_markets |-> gm.excess_markets + (IF excess THEN 1 ELSE 0)]

\* one iteration of the outer loop: every good the market lists
aggregate_market(goods, market) ==
    LET listed == Get(market, "goods", EmptyDict)
    IN  [g \in DOMAIN goods \cup DOMAIN listed |->
            IF g \in DOMAIN listed
            THEN add_payload(Get(goods, g, GoodMetrics), listed[g])
            ELSE goods[g]]

RECURSIVE aggregate_goods_loop(_, _)
aggregate_goods_loop(goods, markets) ==
    IF markets = << >> THEN goods
    ELSE aggregate_goods_loop(aggregate_market(goods, Head(markets)), Tail(markets))

aggregate_goods(markets) == aggregate_goods_loop(EmptyDict, markets)

(***************************************************************************)
(* aggregate_facilities: fold every county's facility records into         *)
(* FacilityMetrics.  A facility record is a dict; its "type" is a string   *)
(* ("" stands for every falsy type, null included) and its "active" a      *)
(* truth value.                                                            *)
(***************************************************************************)
\* add_facility without the skip: a record without type goes to the key ""
add_facility_unskipped(facilities, entry) ==
    LET facility_type == Get(entry, "type", "")
        fm == Get(facilities, facility_type, FacilityMetrics)
        updated ==
          [count |-> fm.count + 1,
           active_count |-> fm.active_count + (IF Get(entry, "active", FALSE) THEN 1 ELSE 0),
           workers |-> fm.workers + safe_float(Get(entry, "workers", Num(0))),
           labor_required |-> fm.labor_required + safe_float(Get(entry, "laborRequired", Num(0))),
           efficiency_sum |-> fm.efficiency_sum + safe_float(Get(entry, "efficiency", Num(0))),
           loss_days_sum |-> fm.loss_days_sum + safe_float(Get(entry, "consecutiveLossDays", Num(0))),
           wage_debt_sum |-> fm.wage_debt_sum + safe_float(Get(entry, "wageDebtDays", Num(0)))]
    IN  [t \in DOMAIN facilities \cup {facility_type} |->
            IF t = facility_type THEN updated ELSE facilities[t]]

\* the body of the inner loop for one facility record (lines 278-288)
add_facility(facilities, entry) ==
    LET facility_type == Get(entry, "type", "")
    IN  IF facility_type = "" THEN facilities
        ELSE LET fm == Get(facilities, facility_type, FacilityMetrics)
                 updated ==
                   [count |-> fm.count + 1,
                    active_count |-> fm.active_count + (IF Get(entry, "active", FALSE) THEN 1 ELSE 0),
                    workers |-> fm.workers + safe_float(Get(entry, "workers", Num(0))),
                    labor_required |-> fm.labor_required + safe_float(Get(entry, "laborRequired", Num(0))),
                    efficiency_sum |-> fm.efficiency_sum + safe_float(Get(entry, "efficiency", Num(0))),
                    loss_days_sum |-> fm.loss_days_sum + safe_float(Get(entry, "consecutiveLossDays", Num(0))),
                    wage_debt_sum |-> fm.wage_debt_sum + safe_float(Get(entry, "wageDebtDays", Num(0)))]
             IN  [t \in DOMAIN facilities \cup {facility_type} |->
                    IF t = facility_type THEN updated ELSE facilities[t]]

RECURSIVE aggregate_county(_, _)
aggregate_county(facilities, entries) ==
    IF entries = << >> THEN facilities
    ELSE aggregate_county(add_facility(facilities, Head(entries)), Tail(entries))

RECURSIVE aggregate_facilities_loop(_, _)
aggregate_facilities_loop(facilities, counties) ==
    IF counties = << >> THEN facilities
    ELSE aggregate_facilities_loop(
             aggregate_county(facilities, Get(Head(counties), "facilities", << >>)),
             Tail(counties))

aggregate_facilities(counties) == aggregate_facilities_loop(EmptyDict, counties)

(***************************************************************************)
(* stage_totals and weighted_facility_health.                              *)
(***************************************************************************)
\* stage_totals that returns after the first good of the stage
stage_totals_first_only(goods, stage_goods) ==
    IF stage_goods = << >> \/ Head(stage_goods) \notin DOMAIN goods
    THEN [supply |-> 0, demand |-> 0, volume |-> 0]
    ELSE [supply |-> goods[Head(stage_goods)].supply,
          demand |-> goods[Head(stage_goods)].demand,
          volume |-> goods[Head(stage_goods)].volume]

\* stage_totals that stops at the first good the mapping lacks
RECURSIVE stage_totals_break(_, _)
stage_totals_break(goods, stage_goods) ==
    IF stage_goods = << >> THEN [supply |-> 0, demand |-> 0, volume |-> 0]
    ELSE LET good_id == Head(stage_goods)
         IN  IF good_id \notin DOMAIN goods THEN [supply |-> 0, demand |-> 0, volume |-> 0]
             ELSE LET rest == stage_totals_break(goods, Tail(stage_goods))
                  IN  [supply |-> goods[good_id].supply + rest.supply,
                       demand |-> goods[good_id].demand + rest.demand,
                       volume |-> goods[good_id].volume + rest.volume]

RECURSIVE stage_totals(_, _)
stage_totals(goods, stage_goods) ==
    IF stage_goods = << >> THEN [supply |-> 0, demand |-> 0, volume |-> 0]
    ELSE LET rest == stage_totals(goods, Tail(stage_goods))
             good_id == Head(stage_goods)
         IN  IF good_id \notin DOMAIN goods THEN rest
             ELSE [supply |-> goods[good_id].supply + rest.supply,
                   demand |-> goods[good_id].demand + rest.demand,
                   volume |-> goods[good_id].volume + rest.volume]

\* the loop of weighted_facility_health without the weights: the ratios of a
\* type are added once, whatever its count
RECURSIVE facility_sums_unweighted(_, _)
facility_sums_unweighted(facilities, facility_ids) ==
    IF facility_ids = << >>
    THEN [total_count |-> 0, active_sum |-> FZero, fill_sum |-> FZero]
    ELSE LET rest == facility_sums_unweighted(facilities, Tail(facility_ids))
             facility_id == Head(facility_ids)
         IN  IF facility_id \notin DOMAIN facilities \/ facilities[facility_id].count <= 0
             THEN rest
             ELSE LET fm == facilities[facility_id]
                  IN  [total_count |-> rest.total_count + fm.count,
                       active_sum |-> FAdd(rest.active_sum, active_ratio(fm)),
                       fill_sum |-> FAdd(rest.fill_sum, labor_fill(fm))]

\* the loop of weighted_facility_health (lines 309-318): the three running sums
RECURSIVE facility_sums(_, _)
facility_sums(facilities, facility_ids) ==
    IF facility_ids = << >>
    THEN [total_count |-> 0, active_sum |-> FZero, fill_sum |-> FZero]
    ELSE LET rest == facility_sums(facilities, Tail(facility_ids))
             facility_id == Head(facility_ids)
         IN  IF facility_id \notin DOMAIN facilities \/ facilities[facility_id].count <= 0
             THEN rest
             ELSE LET fm == facilities[facility_id]
                  IN  [total_count |-> rest.total_count + fm.count,
                       active_sum |-> FAdd(rest.active_sum, FMul(active_ratio(fm), fm.count)),
                       fill_sum |-> FAdd(rest.fill_sum, FMul(labor_fill(fm), fm.count))]

weighted_facility_health(facilities, facility_ids) ==
    LET sums == facility_sums(facilities, facility_ids)
    IN  IF sums.total_count <= 0
        THEN [active |-> FZero, fill |-> FZero, count |-> 0]
        ELSE [active |-> FDiv(sums.active_sum, sums.total_count),
              fill |-> FDiv(sums.fill_sum, sums.total_count),
              count |-> sums.total_count]

(***************************************************************************)
(* classify_chain.                                                         *)
(***************************************************************************)
\* print_global_section: the values of the line of global signals, from the
\* summary block of the dump (quantities are whole numbers, which int() leaves
\* as they are)
print_global_section(summary, goods) ==
    LET total_supply == safe_float(Get(summary, "totalMarketSupply", Num(0)))
        total_demand == safe_float(Get(summary, "totalMarketDemand", Num(0)))
        total_volume == safe_float(Get(summary, "totalMarketVolume", Num(0)))
        pending == safe_float(Get(summary, "totalPendingOrders", Num(0)))
        lots == safe_float(Get(summary, "totalConsignmentLots", Num(0)))
        fill == IF total_demand > 0 THEN Frac(total_volume, total_demand) ELSE FOne
        total_demand_over_supply ==
            IF total_supply > 0 THEN Frac(total_demand, total_supply) ELSE FInf
    IN  [supply |-> total_supply, demand |-> total_demand, volume |-> total_volume,
         fill |-> fill, demand_over_supply |-> total_demand_over_supply,
         pendingOrders |-> pending, lots |-> lots]

\* the values of the line the details print for one stage of a chain
stage_line(stage, goods, facilities) ==
    LET totals == stage_totals(goods, stage.goods)
        health == weighted_facility_health(facilities, stage.facilities)
    IN  [stage |-> stage.label,
         supply |-> totals.supply, demand |-> totals.demand, volume |-> totals.volume,
         facilities |-> health.count, active |-> health.active, labor_fill |-> health.fill]

\* the lines of all the stages of a chain
stage_lines(chain, goods, facilities) ==
    [k \in DOMAIN chain.stages |-> stage_line(chain.stages[k], goods, facilities)]

\* the values of a row of the summary table: the metrics of the chain's final
\* good and the ratios derived from them
summary_row(chain, goods) ==
    LET gm == Get(goods, final_good(chain), GoodMetrics)
    IN  [final_good |-> final_good(chain),
         demand |-> gm.demand,
         supply |-> gm.supply,
         demand_over_supply |-> demand_over_supply(gm),
         fill_ratio |-> fill_ratio(gm),
         short_fraction |-> short_fraction(gm),
         excess_fraction |-> excess_fraction(gm)]

\* chain.stages[1:] with every stage's facilities appended, in order
RECURSIVE processing_facilities_from(_, _)
processing_facilities_from(stages, i) ==
    IF i > Len(stages) THEN << >>
    ELSE stages[i].facilities \o processing_facilities_from(stages, i + 1)

\* processing_facilities over all the stages, the first included
processing_facilities_all(chain) == processing_facilities_from(chain.stages, 1)

processing_facilities(chain) == processing_facilities_from(chain.stages, 2)

\* f"{x:.0%}": the percentage rounded to a whole number, halves to even
Percent(f) ==
    LET whole == (100 * f.n) \div f.d
        rest  == (100 * f.n) % f.d
    IN  IF 2 * rest > f.d THEN whole + 1
        ELSE IF 2 * rest = f.d THEN whole + (whole % 2)
        ELSE whole

\* a rationale: its fixed text and the two percentages it quotes (-1: none)
Rationale(text, active_pct, fill_pct) ==
    [text |-> text, active_pct |-> active_pct, fill_pct |-> fill_pct]

\* a result whose fallback label is misspelt
Result_misspelt(label, rationale) ==
    [label |-> IF label = "MIXED" THEN "MIXED_SIGNAL" ELSE label, rationale |-> rationale]

Result(label, rationale) == [label |-> label, rationale |-> rationale]

\* the conditions classify_chain tests
raw_demand_over_supply(raw_supply, raw_demand) ==
    IF raw_supply > 0 THEN Frac(raw_demand, raw_supply) ELSE FInf

raw_abundant(raw_supply, raw_demand) ==
    raw_supply > 0 /\ FLt(raw_demand_over_supply(raw_supply, raw_demand), 2, 10)

\* processing_weak with "and" for "or"
processing_weak_both(processing_active, processing_fill, processing_count) ==
    processing_count > 0
    /\ (FLt(processing_active, 4, 10) /\ FLt(processing_fill, 35, 100))

\* processing_weak without the test of processing_count
processing_weak_unguarded(processing_active, processing_fill, processing_count) ==
    FLt(processing_active, 4, 10) \/ FLt(processing_fill, 35, 100)

processing_weak(processing_active, processing_fill, processing_count) ==
    processing_count > 0
    /\ (FLt(processing_active, 4, 10) \/ FLt(processing_fill, 35, 100))

\* no_signal with "<" for the second "<="
no_signal_strict(final) == final.demand <= 0 /\ final.supply < 0

no_signal(final) == final.demand <= 0 /\ final.supply <= 0

\* no_final_supply that takes a supply of 0 for a supply
no_final_supply_negative(final) == final.supply < 0 /\ final.demand > 0

no_final_supply(final) == final.supply <= 0 /\ final.demand > 0

\* no_raw_supply with "<" for "<="
no_raw_supply_strict(raw_supply) == raw_supply < 0

no_raw_supply(raw_supply) == raw_supply <= 0

\* localized_imbalance with "<" for the last "<= 0.7"
localized_imbalance_open(final) ==
    /\ FGe(short_fraction(final), 3, 10) /\ FLe(short_fraction(final), 7, 10)
    /\ FGe(excess_fraction(final), 3, 10) /\ FLt(excess_fraction(final), 7, 10)
    /\ FGe(price_cv_squared(final), 36, 100)

\* localized_imbalance with ">" for ">= 0.6"
localized_imbalance_above(final) ==
    /\ FGe(short_fraction(final), 3, 10) /\ FLe(short_fraction(final), 7, 10)
    /\ FGe(excess_fraction(final), 3, 10) /\ FLe(excess_fraction(final), 7, 10)
    /\ ~FLe(price_cv_squared(final), 36, 100)

localized_imbalance(final) ==
    /\ FGe(short_fraction(final), 3, 10) /\ FLe(short_fraction(final), 7, 10)
    /\ FGe(excess_fraction(final), 3, 10) /\ FLe(excess_fraction(final), 7, 10)
    /\ FGe(price_cv_squared(final), 36, 100)

broad_oversupply(final) ==
    FGe(excess_fraction(final), 7, 10) /\ FGe(supply_over_demand(final), 2, 1)

\* broad_shortage tested only after localized_imbalance
broad_shortage_after_localized(final) ==
    /\ FGe(short_fraction(final), 7, 10) /\ FGe(demand_over_supply(final), 2, 1)
    /\ ~localized_imbalance(final)

broad_shortage(final) ==
    FGe(short_fraction(final), 7, 10) /\ FGe(demand_over_supply(final), 2, 1)

classify_chain(chain, goods, facilities) ==
    LET final == Get(goods, final_good(chain), GoodMetrics)
        raw == stage_totals(goods, raw_goods(chain))
        health == weighted_facility_health(facilities, processing_facilities(chain))
    IN  IF no_signal(final)
        THEN Result("NO_SIGNAL",
                    Rationale("No demand and no supply in this dump.", -1, -1))
        ELSE IF no_final_supply(final)
        THEN IF no_raw_supply(raw.supply)
             THEN Result("SYSTEMIC_UPSTREAM_GAP",
                         Rationale("Demand exists but zero supply and zero upstream raw supply on-map; likely import/exogenous availability gap.", -1, -1))
             ELSE Result("CHAIN_CONVERSION_BOTTLENECK",
                         Rationale("Demand exists with zero final supply despite upstream presence; conversion stage is effectively offline.", -1, -1))
        ELSE IF broad_shortage(final)
        THEN IF /\ raw_abundant(raw.supply, raw.demand)
                /\ processing_weak(health.active, health.fill, health.count)
             THEN Result("CHAIN_PROCESSING_BOTTLENECK",
                         Rationale("Final good is short in most markets while raw inputs are abundant; processing health is weak (active=, labor_fill=).",
                                   Percent(health.active), Percent(health.fill)))
             ELSE Result("SYSTEMIC_SHORTAGE",
                         Rationale("Final good shortage appears in most active markets, indicating broad under-supply not isolated to one market.", -1, -1))
        ELSE IF broad_oversupply(final)
        THEN Result("SYSTEMIC_OVERSUPPLY",
                    Rationale("Final good is in excess across most active markets; demand pull is weak versus available supply.", -1, -1))
        ELSE IF localized_imbalance(final)
        THEN Result("LOCALIZED_DISTRIBUTION_IMBALANCE",
                    Rationale("Mixed shortage/excess by market with high cross-market price dispersion suggests routing/distribution fragmentation.", -1, -1))
        ELSE Result("MIXED",
                    Rationale("No single dominant failure mode from this snapshot.", -1, -1))

(***************************************************************************)
(* The dumps explored.  A dump is a list of market records and a list of   *)
(* county records.  Its markets are a run of equal markets A followed by a *)
(* run of equal markets B; both list the final good of one chain of the    *)
(* registry and one of its raw goods (A the first, B the last).  Its       *)
(* counties are two: a run of equal facility records in each.              *)
(***************************************************************************)
\* the longest runs of markets A and B, and of facility records in the
\* first and the second county
MaxRunA == 7

MaxRunB == 3

MaxFacA == 2

MaxFacB == 3

Rep(x, n) == [i \in 1..n |-> x]

Min(a, b) == IF a <= b THEN a ELSE b

\* what a market lists for a good: nothing, or supply, demand and price
NoListing == [listed |-> FALSE, supply |-> 0, demand |-> 0, price |-> 0]

Listing(s, d, p) == [listed |-> TRUE, supply |-> s, demand |-> d, price |-> p]

\* the payload dict of a listing, its supply under the key supply_key
Payload(supply_key, l) ==
    (supply_key :> Num(l.supply)) @@
    [demand |-> Num(l.demand), volume |-> Num(Min(l.supply, l.demand)),
     price |-> Num(l.price)]

GoodsDict(supply_key, good_id, l) ==
    IF l.listed THEN (good_id :> Payload(supply_key, l)) ELSE EmptyDict

Market(supply_key, final_id, f, raw_id, r) ==
    [goods |-> GoodsDict(supply_key, final_id, f) @@ GoodsDict(supply_key, raw_id, r)]

FacilityEntry(type, active, labor) ==
    [type |-> type, active |-> active,
     workers |-> Num(labor[1]), laborRequired |-> Num(labor[2]),
     efficiency |-> Num(1), consecutiveLossDays |-> Num(0), wageDebtDays |-> Num(0)]

County(entry, n) == [facilities |-> Rep(entry, n)]

Dump(c, fA, nA, fB, nB, r, eA, mA, eB, mB) ==
    LET chain == CHAIN_DEFS[c]
        raws == raw_goods(chain)
    IN  [markets |->
            Rep(Market("supplyOffered", final_good(chain), fA, raws[1], r), nA)
            \o Rep(Market("supply", final_good(chain), fB, raws[Len(raws)], r), nB),
         counties |-> << County(eA, mA), County(eB, mB) >>]

Chains == 1..Len(CHAIN_DEFS)

\* listings of the final good
FinalListings ==
    {NoListing} \cup {Listing(s, d, p) : s \in {0, 1, 2}, d \in {0, 1, 4}, p \in {1, 4}}

\* listings of a raw good: no supply, demand/supply 1/5, 1/6, 1/10, 1, 0
RawListings ==
    {NoListing, Listing(0, 1, 1), Listing(5, 1, 1), Listing(6, 1, 1),
     Listing(10, 1, 1), Listing(1, 1, 1), Listing(3, 0, 1)}

\* (workers, laborRequired) of a facility record: labor_fill 0, 7/20, 1/4, 1
LaborVals == {<<0, 0>>, <<7, 20>>, <<1, 4>>, <<1, 1>>}

\* facility records of the first county: of the chain's last stage or of its
\* first (raw) stage
EntriesA(c) ==
    LET stages == CHAIN_DEFS[c].stages
    IN  {FacilityEntry(t, a, l) :
            t \in {stages[Len(stages)].facilities[1], stages[1].facilities[1]},
            a \in BOOLEAN, l \in LaborVals}

\* facility records of the second county: of the chain's second stage
EntriesB(c) ==
    {FacilityEntry(CHAIN_DEFS[c].stages[2].facilities[1], a, <<1, 1>>) : a \in BOOLEAN}

\* the state: the dump read (markets, counties), the two aggregates, the
\* results of classify_chain for the chains of the summary table (classes)
\* and of the details (details) printed so far, the rows of the summary table
\* (table), and the position in main()
\* besides: the summary block of the dump (summary), the values of the line
\* of global signals (signals) and the stage lines of the details (lines)
VARIABLES markets, counties, summary, goods, facilities, signals, classes, details,
          table, lines, pc

vars == <<markets, counties, summary, goods, facilities, signals, classes, details,
          table, lines, pc>>

\* the dump is the program's input
ReadDump(dump) ==
    /\ markets = dump.markets
    /\ counties = dump.counties
    /\ summary = Get(dump, "summary", EmptyDict)

\* the chain's idle last-stage facility record
IdleEntry(c) ==
    FacilityEntry(CHAIN_DEFS[c].stages[Len(CHAIN_DEFS[c].stages)].facilities[1],
                  FALSE, <<1, 1>>)

\* every final-good situation, over raw goods without and with ample supply
\* and one idle processing facility; p = <<fA, nA, fB, nB, r>>
FinalSweepParams ==
    FinalListings \X (0..MaxRunA) \X FinalListings \X (0..MaxRunB)
    \X {Listing(0, 1, 1), Listing(10, 1, 1)}

FinalSweepDump(c, p) ==
    Dump(c, p[1], p[2], p[3], p[4], p[5], IdleEntry(c), 1, IdleEntry(c), 0)

FinalSweep == \E c \in Chains : \E p \in FinalSweepParams : ReadDump(FinalSweepDump(c, p))

\* every raw-good and facility situation, over a final good that is short
\* everywhere, has no supply at all, or is balanced; p = <<fA, r, eA, mA, eB, mB>>
UpstreamSweepParams(c) ==
    {Listing(1, 4, 1), Listing(0, 4, 1), Listing(1, 1, 1)} \X RawListings
    \X EntriesA(c) \X (0..MaxFacA) \X EntriesB(c) \X (0..MaxFacB)

UpstreamSweepDump(c, p) ==
    Dump(c, p[1], 1, NoListing, 0, p[2], p[3], p[4], p[5], p[6])

UpstreamSweep ==
    \E c \in Chains : \E p \in UpstreamSweepParams(c) : ReadDump(UpstreamSweepDump(c, p))

\* the scenarios the specification names for a chain c:
\*  1  demand 300, supply 100, short in 4 of 5 markets, raw demand/supply
\*     0.1, 1 of 5 processing facilities active
\*  2  the same with 9 of 10 processing facilities active, labor fill 0.8
\*  3  short in 1 of 2 markets, in excess in the other, prices 3 and 17
\*     (price_cv 0.7), demand 100
Scenario(c, k) ==
    LET stages == CHAIN_DEFS[c].stages
        last == stages[Len(stages)].facilities[1]
        second == stages[2].facilities[1]
    IN  CASE k = 1 ->
               Dump(c, Listing(10, 70, 1), 4, Listing(60, 20, 1), 1, Listing(200, 20, 1),
                    FacilityEntry(last, TRUE, <<1, 1>>), 1,
                    FacilityEntry(second, FALSE, <<1, 1>>), 4)
          [] k = 2 ->
               Dump(c, Listing(10, 70, 1), 4, Listing(60, 20, 1), 1, Listing(200, 20, 1),
                    FacilityEntry(last, TRUE, <<8, 10>>), 9,
                    FacilityEntry(second, FALSE, <<8, 10>>), 1)
          [] OTHER ->
               Dump(c, Listing(10, 60, 3), 1, Listing(60, 40, 17), 1, Listing(1, 1, 1),
                    FacilityEntry(last, TRUE, <<1, 1>>), 1,
                    FacilityEntry(second, TRUE, <<1, 1>>), 1)

Scenarios == \E c \in Chains, k \in 1..3 : ReadDump(Scenario(c, k))

Init ==
    /\ (FinalSweep \/ UpstreamSweep \/ Scenarios)
    /\ goods = EmptyDict
    /\ facilities = EmptyDict
    /\ classes = << >>
    /\ details = << >>
    /\ table = << >>
    /\ signals = << >>
    /\ lines = << >>
    /\ pc = "aggregate_goods"

\* goods = aggregate_goods(markets)
AggregateGoods ==
    /\ pc = "aggregate_goods"
    /\ goods' = aggregate_goods(markets)
    /\ pc' = "aggregate_facilities"
    /\ UNCHANGED <<markets, counties, summary, facilities, signals, classes, details,
                   table, lines>>

\* facilities = aggregate_facilities(counties)
AggregateFacilities ==
    /\ pc = "aggregate_facilities"
    /\ facilities' = aggregate_facilities(counties)
    /\ pc' = "global"
    /\ UNCHANGED <<markets, counties, summary, goods, signals, classes, details,
                   table, lines>>

\* print_global_section(summary, goods)
PrintGlobalSection ==
    /\ pc = "global"
    /\ signals' = print_global_section(summary, goods)
    /\ pc' = "chains"
    /\ UNCHANGED <<markets, counties, summary, goods, facilities, classes, details,
                   table, lines>>

\* the goods classify_chain looks up: the final good and the raw goods
goods_read(chain) == <<final_good(chain)>> \o raw_goods(chain)

\* the goods and the facility types the details of a chain look up: those of
\* every stage
RECURSIVE stage_goods_from(_, _)
stage_goods_from(stages, i) ==
    IF i > Len(stages) THEN << >>
    ELSE stages[i].goods \o stage_goods_from(stages, i + 1)

RECURSIVE stage_facilities_from(_, _)
stage_facilities_from(stages, i) ==
    IF i > Len(stages) THEN << >>
    ELSE stages[i].facilities \o stage_facilities_from(stages, i + 1)

\* one iteration of print_chain_section's first loop over CHAIN_DEFS (the
\* summary table): the lookups of the iteration and of classify_chain act on
\* the two mappings
ClassifyChain ==
    /\ pc = "chains"
    /\ LET chain == CHAIN_DEFS[Len(classes) + 1]
       IN  /\ classes' = Append(classes, classify_chain(chain, goods, facilities))
           /\ table' = Append(table, summary_row(chain, goods))
           /\ goods' = after_gets(goods, goods_read(chain), GoodMetrics)
           /\ facilities' = after_gets(facilities, processing_facilities(chain), FacilityMetrics)
    /\ pc' = IF Len(classes') = Len(CHAIN_DEFS) THEN "details" ELSE "chains"
    /\ UNCHANGED <<markets, counties, summary, signals, details, lines>>

\* one iteration of print_chain_section's second loop over CHAIN_DEFS (the
\* details): classify_chain is called again, then every stage is looked up
ChainDetails ==
    /\ pc = "details"
    /\ LET chain == CHAIN_DEFS[Len(details) + 1]
       IN  /\ details' = Append(details, classify_chain(chain, goods, facilities))
           /\ lines' = Append(lines, stage_lines(chain, goods, facilities))
           /\ goods' = after_gets(goods, goods_read(chain) \o stage_goods_from(chain.stages, 1),
                                  GoodMetrics)
           /\ facilities' = after_gets(facilities,
                                       processing_facilities(chain)
                                       \o stage_facilities_from(chain.stages, 1),
                                       FacilityMetrics)
    /\ pc' = IF Len(details') = Len(CHAIN_DEFS) THEN "done" ELSE "details"
    /\ UNCHANGED <<markets, counties, summary, signals, classes, table>>

Next ==
    AggregateGoods \/ AggregateFacilities \/ PrintGlobalSection \/ ClassifyChain \/ ChainDetails

Spec == Init /\ [][Next]_vars

(***************************************************************************)
(* Dumps for the aggregation: short sequences of market records and of     *)
(* facility records whose leaf fields are present, missing, null, not a    *)
(* number, zero, negative, or on either side of the 5% threshold.          *)
(***************************************************************************)
\* the most market records of a dump and the most facility records of a county
MaxMarkets == 3

\* the most market records of a dump whose records range over all AggPayloads
MaxVaried == 2

MaxEntries == 3

\* what a market can hold for a good
AggPayloads ==
    { \* no supply, no demand, yet a volume and a price
      [supplyOffered |-> Num(0), demand |-> Num(0), volume |-> Num(5), price |-> Num(3)],
      \* demand = supply * 1.05: neither short nor in excess
      [supply |-> Num(20), demand |-> Num(21), volume |-> Num(20), price |-> Num(1)],
      \* short
      [supplyOffered |-> Num(20), demand |-> Num(22), volume |-> Num(20), price |-> Num(2)],
      \* in excess
      [supply |-> Num(22), demand |-> Num(20), volume |-> Num(20), price |-> Num(1)],
      \* short without supply
      [supply |-> Num(0), demand |-> Num(1), volume |-> Num(0), price |-> Num(4)],
      \* supplyOffered null beside a supply, demand not a number, price null
      [supplyOffered |-> Null, supply |-> Num(5), demand |-> Str, volume |-> Num(1),
       price |-> Null],
      \* supplyOffered beside a supply
      [supplyOffered |-> Num(1), supply |-> Num(9), demand |-> Num(3), volume |-> Num(1),
       price |-> Num(2)],
      \* a negative supply
      [supply |-> Num(0 - 1), demand |-> Num(0), volume |-> Num(0), price |-> Num(1)],
      \* a negative demand and a negative volume
      [supply |-> Num(1), demand |-> Num(0 - 2), volume |-> Num(0 - 1), price |-> Num(0)],
      \* no field at all
      EmptyDict,
      \* no demand field
      [supply |-> Num(3), volume |-> Num(0), price |-> Num(1)],
      \* a number in a string and a boolean
      [supply |-> NumStr(2), demand |-> Bool(TRUE), volume |-> Bool(FALSE), price |-> NumStr(3)] }

CoercedPayload ==
    [supplyOffered |-> Null, supply |-> Num(5), demand |-> Str, volume |-> Num(1),
     price |-> Null]

ShortPayload ==
    [supplyOffered |-> Num(20), demand |-> Num(22), volume |-> Num(20), price |-> Num(2)]

ExcessPayload ==
    [supply |-> Num(22), demand |-> Num(20), volume |-> Num(20), price |-> Num(1)]

\* a market listing bread, a market without goods, a market listing two goods
AggMarkets ==
    {[goods |-> ("bread" :> q)] : q \in AggPayloads}
    \cup {EmptyDict}
    \cup {[goods |-> ("bread" :> ShortPayload) @@ ("salt" :> ExcessPayload)]}

\* the markets of the longer dumps: bread without supply or demand, at the
\* 1.05 threshold, short, in excess, with a null supplyOffered, with a
\* supplyOffered beside a supply
AggCoreMarkets ==
    {[goods |-> ("bread" :> q)] :
        q \in { [supplyOffered |-> Num(0), demand |-> Num(0), volume |-> Num(5), price |-> Num(3)],
                [supply |-> Num(20), demand |-> Num(21), volume |-> Num(20), price |-> Num(1)],
                ShortPayload, ExcessPayload, CoercedPayload,
                [supplyOffered |-> Num(1), supply |-> Num(9), demand |-> Num(3),
                 volume |-> Num(1), price |-> Num(2)] }}

\* every dump of up to MaxVaried markets, and the dumps of up to MaxMarkets
\* markets of AggCoreMarkets
AggMarketSeqs ==
    UNION {[1..n -> AggMarkets] : n \in 0..MaxVaried}
    \cup UNION {[1..n -> AggCoreMarkets] : n \in (MaxVaried + 1)..MaxMarkets}

\* facility records: complete, without a type, with an empty type, with
\* leaf fields null, not a number or missing
TypedEntry ==
    [type |-> "bakery", active |-> TRUE, workers |-> Num(2), laborRequired |-> Num(4),
     efficiency |-> Num(1), consecutiveLossDays |-> Num(2), wageDebtDays |-> Num(1)]

AggEntries ==
    { TypedEntry,
      [active |-> TRUE, workers |-> Num(3), laborRequired |-> Num(3),
       efficiency |-> Num(1), consecutiveLossDays |-> Num(1), wageDebtDays |-> Num(1)],
      [type |-> "", active |-> TRUE, workers |-> Num(1), laborRequired |-> Num(1),
       efficiency |-> Num(1), consecutiveLossDays |-> Num(1), wageDebtDays |-> Num(1)],
      [type |-> "mill", active |-> FALSE, workers |-> Null, laborRequired |-> Str,
       efficiency |-> NumStr(1), wageDebtDays |-> Bool(TRUE)],
      [type |-> "bakery", workers |-> Num(1), laborRequired |-> Num(1)],
      [type |-> "rye_mill", active |-> TRUE, workers |-> Num(2), laborRequired |-> Num(0 - 1)] }

AggEntrySeqs == UNION {[1..n -> AggEntries] : n \in 0..MaxEntries}

\* the counties of a dump: one with the records es, one without facilities,
\* one with a complete record
AggCounties(es) ==
    << [facilities |-> es], EmptyDict, [facilities |-> <<TypedEntry>>] >>

\* the summary block of a dump: absent, or its three totals
AggSummaries ==
    {EmptyDict}
    \cup {[totalMarketSupply |-> s, totalMarketDemand |-> d, totalMarketVolume |-> v,
           totalPendingOrders |-> Num(2)] :
             s \in {Num(0), Num(4), Num(0 - 1), Null},
             d \in {Num(0), Num(2), Num(0 - 1), Str},
             v \in {Num(0), Num(1), Num(3)}}

AggInit ==
    /\ \/ \E ms \in AggMarketSeqs :
            /\ markets = ms
            /\ counties = AggCounties(<< >>)
            /\ summary = EmptyDict
       \/ \E sm \in AggSummaries :
            /\ markets = << [goods |-> ("bread" :> ShortPayload)] >>
            /\ counties = AggCounties(<< >>)
            /\ summary = sm
       \/ \E es \in AggEntrySeqs :
            /\ markets = << [goods |-> ("bread" :> ShortPayload)],
                            [goods |-> ("bread" :> CoercedPayload)] >>
            /\ counties = AggCounties(es)
            /\ summary = EmptyDict
    /\ goods = EmptyDict
    /\ facilities = EmptyDict
    /\ classes = << >>
    /\ details = << >>
    /\ table = << >>
    /\ signals = << >>
    /\ lines = << >>
    /\ pc = "aggregate_goods"

AggSpec == AggInit /\ [][Next]_vars

(***************************************************************************)
(* Dumps for the chain section: the upstream sweep and the scenarios, the  *)
(* final-good sweep over short runs of markets, and the scenarios with a   *)
(* market that lists an intermediate good, a further raw good and a good   *)
(* of no chain, and a county with facilities of a first stage, of a        *)
(* processing stage and of no chain.                                       *)
(***************************************************************************)
\* the longest runs of markets A and B of the short final-good sweep
MaxRunC == 1

ShortFinalSweepParams ==
    FinalListings \X (0..MaxRunC) \X FinalListings \X (0..MaxRunC)
    \X {Listing(0, 1, 1), Listing(10, 1, 1)}

ShortFinalSweep ==
    \E c \in Chains : \E p \in ShortFinalSweepParams : ReadDump(FinalSweepDump(c, p))

ExtraMarket ==
    [goods |-> ("flour" :> Payload("supply", Listing(3, 2, 1)))
               @@ ("rye" :> Payload("supplyOffered", Listing(4, 1, 1)))
               @@ ("iron_ore" :> Payload("supply", Listing(1, 5, 1)))]

ExtraCounty ==
    [facilities |-> << FacilityEntry("rye_farm", FALSE, <<0, 3>>),
                       FacilityEntry("smithy", TRUE, <<1, 1>>),
                       FacilityEntry("rye_mill", TRUE, <<1, 2>>) >>]

WithExtras(dump) ==
    [markets |-> dump.markets \o <<ExtraMarket>>,
     counties |-> dump.counties \o <<ExtraCounty>>]

ExtraScenarios == \E c \in Chains, k \in 1..3 : ReadDump(WithExtras(Scenario(c, k)))

ChainInit ==
    /\ (UpstreamSweep \/ Scenarios \/ ShortFinalSweep \/ ExtraScenarios)
    /\ goods = EmptyDict
    /\ facilities = EmptyDict
    /\ classes = << >>
    /\ details = << >>
    /\ table = << >>
    /\ signals = << >>
    /\ lines = << >>
    /\ pc = "aggregate_goods"

ChainSpec == ChainInit /\ [][Next]_vars

(***************************************************************************)
(* The properties.  They are stated over the state: classes[i] is what     *)
(* classify_chain returned for chain i of the registry on the goods and    *)
(* facilities of the state.  The quantities of the decision procedure are  *)
(* restated here from the aggregates' fields, in whole numbers.            *)
(***************************************************************************)
Classified == 1..Len(classes)

LabelOf(i) == classes[i].label

RECURSIVE SumOver(_)
SumOver(f) ==
    IF DOMAIN f = {} THEN 0
    ELSE LET x == CHOOSE y \in DOMAIN f : TRUE
         IN  f[x] + SumOver([y \in DOMAIN f \ {x} |-> f[y]])

RECURSIVE ProductOver(_)
ProductOver(f) ==
    IF DOMAIN f = {} THEN 1
    ELSE LET x == CHOOSE y \in DOMAIN f : TRUE
         IN  f[x] * ProductOver([y \in DOMAIN f \ {x} |-> f[y]])

\* the final good of chain i: the sole good of its last stage
FinalGoodOf(i) ==
    LET stages == CHAIN_DEFS[i].stages IN stages[Len(stages)].goods[1]

FinalListed(i) == FinalGoodOf(i) \in DOMAIN goods

FinalSupply(i) == IF FinalListed(i) THEN goods[FinalGoodOf(i)].supply ELSE 0

FinalDemand(i) == IF FinalListed(i) THEN goods[FinalGoodOf(i)].demand ELSE 0

FinalActive(i) == IF FinalListed(i) THEN goods[FinalGoodOf(i)].active_markets ELSE 0

FinalShort(i) == IF FinalListed(i) THEN goods[FinalGoodOf(i)].short_markets ELSE 0

FinalExcess(i) == IF FinalListed(i) THEN goods[FinalGoodOf(i)].excess_markets ELSE 0

FinalPrices(i) == IF FinalListed(i) THEN goods[FinalGoodOf(i)].prices ELSE << >>

\* the first-stage goods of chain i that some market lists, and their totals
RawListed(i) ==
    LET raws == CHAIN_DEFS[i].stages[1].goods
    IN  {raws[k] : k \in 1..Len(raws)} \cap DOMAIN goods

RawSupply(i) == SumOver([g \in RawListed(i) |-> goods[g].supply])

RawDemand(i) == SumOver([g \in RawListed(i) |-> goods[g].demand])

\* raw_demand / raw_supply < 0.2
RawAbundant(i) == RawSupply(i) > 0 /\ 5 * RawDemand(i) < RawSupply(i)

\* the facility types of the stages after the first that have instances
ProcessingTypes(i) ==
    LET stages == CHAIN_DEFS[i].stages
    IN  UNION {{stages[k].facilities[j] : j \in 1..Len(stages[k].facilities)} :
                  k \in 2..Len(stages)}
        \cap DOMAIN facilities

ProcessingCount(i) == SumOver([t \in ProcessingTypes(i) |-> facilities[t].count])

ProcessingActiveCount(i) ==
    SumOver([t \in ProcessingTypes(i) |-> facilities[t].active_count])

\* the count-weighted average of labor_fill = workers / labor_required (0
\* when no labor is required) as FillNumerator / (FillDenominator * count)
StaffedTypes(i) == {t \in ProcessingTypes(i) : facilities[t].labor_required > 0}

FillDenominator(i) ==
    ProductOver([t \in StaffedTypes(i) |-> facilities[t].labor_required])

FillNumerator(i) ==
    SumOver([t \in StaffedTypes(i) |->
                facilities[t].count * facilities[t].workers
                * ProductOver([u \in StaffedTypes(i) \ {t} |-> facilities[u].labor_required])])

\* average active_ratio < 0.4 or average labor_fill < 0.35, over at least
\* one facility instance
ProcessingWeak(i) ==
    /\ ProcessingCount(i) > 0
    /\ \/ 10 * ProcessingActiveCount(i) < 4 * ProcessingCount(i)
       \/ 100 * FillNumerator(i) < 35 * FillDenominator(i) * ProcessingCount(i)

\* short_fraction and excess_fraction against a threshold of tenths
ShortAtLeast(i, tenths) ==
    FinalActive(i) > 0 /\ 10 * FinalShort(i) >= tenths * FinalActive(i)

ShortAtMost(i, tenths) ==
    FinalActive(i) = 0 \/ 10 * FinalShort(i) <= tenths * FinalActive(i)

ExcessAtLeast(i, tenths) ==
    FinalActive(i) > 0 /\ 10 * FinalExcess(i) >= tenths * FinalActive(i)

ExcessAtMost(i, tenths) ==
    FinalActive(i) = 0 \/ 10 * FinalExcess(i) <= tenths * FinalActive(i)

\* demand/supply >= 2.0 and supply/demand >= 2.0, infinite over a zero
DemandDoublesSupply(i) ==
    \/ FinalSupply(i) = 0 /\ FinalDemand(i) > 0
    \/ FinalSupply(i) > 0 /\ FinalDemand(i) >= 2 * FinalSupply(i)

SupplyDoublesDemand(i) ==
    \/ FinalDemand(i) = 0 /\ FinalSupply(i) > 0
    \/ FinalDemand(i) > 0 /\ FinalSupply(i) >= 2 * FinalDemand(i)

\* price_cv >= 0.6: with n prices of sum s, the squared deviations from the
\* mean sum to (sum of (n*p - s)^2) / n^2, so pstdev^2 / mean^2 is that sum
\* over n * s^2
PriceSpreadHigh(i) ==
    LET prices == FinalPrices(i)
        n == Len(prices)
        total == SumOver(prices)
        deviations == SumOver([k \in 1..n |-> (n * prices[k] - total) * (n * prices[k] - total)])
    IN  n > 0 /\ total > 0 /\ 100 * deviations >= 36 * n * total * total

\* the conditions of the rules of the decision procedure
Rule1(i) == FinalDemand(i) = 0 /\ FinalSupply(i) = 0

Rule2(i) == FinalSupply(i) = 0 /\ FinalDemand(i) > 0 /\ RawSupply(i) = 0

Rule3(i) == FinalSupply(i) = 0 /\ FinalDemand(i) > 0 /\ RawSupply(i) > 0

Rule4(i) == ShortAtLeast(i, 7) /\ DemandDoublesSupply(i)

Rule5(i) == ExcessAtLeast(i, 7) /\ SupplyDoublesDemand(i)

Rule6(i) ==
    /\ ShortAtLeast(i, 3) /\ ShortAtMost(i, 7)
    /\ ExcessAtLeast(i, 3) /\ ExcessAtMost(i, 7)
    /\ PriceSpreadHigh(i)

\* the labels of the first rule whose condition holds
FirstRuleLabels(i) ==
    IF Rule1(i) THEN {"NO_SIGNAL"}
    ELSE IF Rule2(i) THEN {"SYSTEMIC_UPSTREAM_GAP"}
    ELSE IF Rule3(i) THEN {"CHAIN_CONVERSION_BOTTLENECK"}
    ELSE IF Rule4(i) THEN {"CHAIN_PROCESSING_BOTTLENECK", "SYSTEMIC_SHORTAGE"}
    ELSE IF Rule5(i) THEN {"SYSTEMIC_OVERSUPPLY"}
    ELSE IF Rule6(i) THEN {"LOCALIZED_DISTRIBUTION_IMBALANCE"}
    ELSE {"MIXED"}

\* C1: for every chain and every goods/facilities mapping, classify_chain
\* returns the label of the first rule, in the order NO_SIGNAL,
\* SYSTEMIC_UPSTREAM_GAP, CHAIN_CONVERSION_BOTTLENECK,
\* CHAIN_PROCESSING_BOTTLENECK/SYSTEMIC_SHORTAGE, SYSTEMIC_OVERSUPPLY,
\* LOCALIZED_DISTRIBUTION_IMBALANCE, MIXED, whose condition holds.
C1_FirstMatchingRuleWins == \A i \in Classified : LabelOf(i) \in FirstRuleLabels(i)

\* C1's example: short_fraction = 0.7, excess_fraction = 0.3, price_cv >= 0.6
\* and demand/supply >= 2.0, where the conditions of rules 4 and 6 both hold
\* and the label is one of rule 4
C1_ShortageBeforeLocalized ==
    \E i \in Classified :
        /\ FinalActive(i) > 0
        /\ 10 * FinalShort(i) = 7 * FinalActive(i)
        /\ 10 * FinalExcess(i) = 3 * FinalActive(i)
        /\ Rule4(i) /\ Rule6(i)
        /\ LabelOf(i) \in {"CHAIN_PROCESSING_BOTTLENECK", "SYSTEMIC_SHORTAGE"}

\* C2: whenever the final good has aggregate supply zero and aggregate
\* demand positive and the first-stage goods have aggregate supply zero,
\* classify_chain returns SYSTEMIC_UPSTREAM_GAP, whatever the market
\* counters, prices and facility metrics are.
C2_UpstreamGap ==
    \A i \in Classified :
        FinalSupply(i) = 0 /\ FinalDemand(i) > 0 /\ RawSupply(i) = 0
            => LabelOf(i) = "SYSTEMIC_UPSTREAM_GAP"

\* a chain returned as SYSTEMIC_UPSTREAM_GAP although the trigger of rule 4
\* holds too and its processing facilities are weak
C2_GapDespiteShortage ==
    \E i \in Classified :
        /\ FinalSupply(i) = 0 /\ FinalDemand(i) > 0 /\ RawSupply(i) = 0
        /\ Rule4(i) /\ ProcessingWeak(i)
        /\ LabelOf(i) = "SYSTEMIC_UPSTREAM_GAP"

\* C3: whenever the final good has aggregate supply zero and aggregate
\* demand positive and the first-stage goods have positive aggregate supply,
\* classify_chain returns CHAIN_CONVERSION_BOTTLENECK, independent of the
\* short/excess fractions and of facility health.
C3_ConversionBottleneck ==
    \A i \in Classified :
        FinalSupply(i) = 0 /\ FinalDemand(i) > 0 /\ RawSupply(i) > 0
            => LabelOf(i) = "CHAIN_CONVERSION_BOTTLENECK"

\* a chain returned as CHAIN_CONVERSION_BOTTLENECK whose raw inputs are
\* abundant and whose processing facilities are weak, as rule 4 asks for
C3_ConversionDespiteWeakProcessing ==
    \E i \in Classified :
        /\ FinalSupply(i) = 0 /\ FinalDemand(i) > 0
        /\ RawAbundant(i) /\ ProcessingWeak(i) /\ Rule4(i)
        /\ LabelOf(i) = "CHAIN_CONVERSION_BOTTLENECK"

\* C4: a chain whose final good no market lists, or whose final good has
\* zero aggregate demand and zero aggregate supply, is classified NO_SIGNAL
\* regardless of its raw goods' metrics and of the facility metrics.
C4_NoSignal ==
    \A i \in Classified :
        (~FinalListed(i) \/ (FinalDemand(i) = 0 /\ FinalSupply(i) = 0))
            => LabelOf(i) = "NO_SIGNAL"

\* a chain returned as NO_SIGNAL whose final good no market lists while its
\* raw goods have supply and its processing facilities have instances
C4_NoSignalWithoutListing ==
    \E i \in Classified :
        /\ ~FinalListed(i) /\ RawSupply(i) > 0 /\ ProcessingCount(i) > 0
        /\ LabelOf(i) = "NO_SIGNAL"

\* rules 1-3 do not match and the trigger of rule 4 holds
ShortageTriggered(i) == ~Rule1(i) /\ ~Rule2(i) /\ ~Rule3(i) /\ Rule4(i)

\* C5: when rules 1-3 do not match and the final good has short_fraction
\* >= 0.7 and demand/supply >= 2.0, classify_chain returns
\* CHAIN_PROCESSING_BOTTLENECK if and only if raw inputs are abundant and
\* processing is weak, and SYSTEMIC_SHORTAGE in every other case.
C5_ProcessingBottleneckOrShortage ==
    /\ \A i \in Classified :
          ShortageTriggered(i) =>
              LabelOf(i) = (IF RawAbundant(i) /\ ProcessingWeak(i)
                            THEN "CHAIN_PROCESSING_BOTTLENECK"
                            ELSE "SYSTEMIC_SHORTAGE")
    \* the second scenario: the shortage of the first (demand 300, supply 100,
    \* short_fraction 0.8, raw demand/supply 0.1) with processing
    \* active_ratio 0.9 and labor_fill 0.8 is returned as SYSTEMIC_SHORTAGE
    /\ \A i \in Classified :
          /\ FinalDemand(i) = 300 /\ FinalSupply(i) = 100
          /\ 10 * FinalShort(i) = 8 * FinalActive(i)
          /\ RawSupply(i) = 10 * RawDemand(i) /\ RawSupply(i) > 0
          /\ 10 * ProcessingActiveCount(i) = 9 * ProcessingCount(i)
          /\ 10 * FillNumerator(i) = 8 * FillDenominator(i) * ProcessingCount(i)
          => LabelOf(i) = "SYSTEMIC_SHORTAGE"

\* C5's first scenario: demand 300, supply 100, short_fraction 0.8, raw
\* demand/supply 0.1 and processing active_ratio 0.2 with full labor_fill,
\* returned as CHAIN_PROCESSING_BOTTLENECK
C5_ScenarioProcessingBottleneck ==
    \E i \in Classified :
        /\ FinalDemand(i) = 300 /\ FinalSupply(i) = 100
        /\ 10 * FinalShort(i) = 8 * FinalActive(i) /\ FinalActive(i) > 0
        /\ RawSupply(i) = 10 * RawDemand(i) /\ RawSupply(i) > 0
        /\ 10 * ProcessingActiveCount(i) = 2 * ProcessingCount(i)
        /\ FillNumerator(i) = FillDenominator(i) * ProcessingCount(i)
        /\ LabelOf(i) = "CHAIN_PROCESSING_BOTTLENECK"

\* C6: when no facility type of the stages after the first has an instance,
\* processing is never flagged weak: under the trigger of rule 4, with
\* abundant raw inputs too, classify_chain returns SYSTEMIC_SHORTAGE, never
\* CHAIN_PROCESSING_BOTTLENECK.
C6_NoProcessingFacilities ==
    \A i \in Classified :
        ShortageTriggered(i) /\ ProcessingCount(i) = 0
            => LabelOf(i) = "SYSTEMIC_SHORTAGE"

\* a chain returned as SYSTEMIC_SHORTAGE under the trigger of rule 4 with
\* abundant raw inputs and no processing facility, while facilities of its
\* first stage exist
C6_ShortageWithoutProcessing ==
    \E i \in Classified :
        /\ ShortageTriggered(i) /\ RawAbundant(i)
        /\ ProcessingCount(i) = 0
        /\ CHAIN_DEFS[i].stages[1].facilities[1] \in DOMAIN facilities
        /\ LabelOf(i) = "SYSTEMIC_SHORTAGE"

\* C7: when rules 1-4 do not match and the final good has excess_fraction
\* >= 0.7 and supply/demand >= 2.0 (infinite when demand is zero and supply
\* positive), classify_chain returns SYSTEMIC_OVERSUPPLY.
C7_Oversupply ==
    \A i \in Classified :
        ~Rule1(i) /\ ~Rule2(i) /\ ~Rule3(i) /\ ~Rule4(i) /\ Rule5(i)
            => LabelOf(i) = "SYSTEMIC_OVERSUPPLY"

\* a chain returned as SYSTEMIC_OVERSUPPLY whose final good has supply and
\* no demand at all
C7_OversupplyWithoutDemand ==
    \E i \in Classified :
        /\ FinalDemand(i) = 0 /\ FinalSupply(i) > 0 /\ ExcessAtLeast(i, 7)
        /\ LabelOf(i) = "SYSTEMIC_OVERSUPPLY"

\* C8: when rules 1-5 do not match and the final good has short_fraction in
\* [0.3, 0.7], excess_fraction in [0.3, 0.7] (bounds included) and price_cv
\* >= 0.6, classify_chain returns LOCALIZED_DISTRIBUTION_IMBALANCE.
C8_LocalizedImbalance ==
    \A i \in Classified :
        ~Rule1(i) /\ ~Rule2(i) /\ ~Rule3(i) /\ ~Rule4(i) /\ ~Rule5(i) /\ Rule6(i)
            => LabelOf(i) = "LOCALIZED_DISTRIBUTION_IMBALANCE"

\* C8's scenario: short_fraction 0.5, excess_fraction 0.5, price_cv 0.7 (two
\* prices 3 and 17: deviation 7 over mean 10) and demand 100, returned as
\* LOCALIZED_DISTRIBUTION_IMBALANCE
C8_ScenarioLocalized ==
    \E i \in Classified :
        /\ FinalActive(i) > 0
        /\ 2 * FinalShort(i) = FinalActive(i) /\ 2 * FinalExcess(i) = FinalActive(i)
        /\ FinalPrices(i) = <<3, 17>>
        /\ FinalDemand(i) = 100
        /\ LabelOf(i) = "LOCALIZED_DISTRIBUTION_IMBALANCE"

\* C9: classify_chain returns MIXED if and only if the condition of none of
\* rules 1-6 holds.
C9_MixedIsFallback ==
    \A i \in Classified :
        LabelOf(i) = "MIXED"
            <=> (~Rule1(i) /\ ~Rule2(i) /\ ~Rule3(i) /\ ~Rule4(i) /\ ~Rule5(i) /\ ~Rule6(i))

\* a chain returned as MIXED whose final good has active markets, some of
\* them short
C9_MixedWithActiveMarkets ==
    \E i \in Classified :
        FinalActive(i) > 0 /\ FinalShort(i) > 0 /\ LabelOf(i) = "MIXED"

\* the labels of the decision procedure
Labels ==
    {"NO_SIGNAL", "SYSTEMIC_UPSTREAM_GAP", "CHAIN_CONVERSION_BOTTLENECK",
     "CHAIN_PROCESSING_BOTTLENECK", "SYSTEMIC_SHORTAGE", "SYSTEMIC_OVERSUPPLY",
     "LOCALIZED_DISTRIBUTION_IMBALANCE", "MIXED"}

\* the labels classify_chain returns for the chains of the registry on a dump
LabelsOn(dump) ==
    {classify_chain(CHAIN_DEFS[i], aggregate_goods(dump.markets),
                    aggregate_facilities(dump.counties)).label : i \in Chains}

\* the labels classify_chain returns on the dumps explored
ReturnedLabels ==
    UNION {LabelsOn(Scenario(c, k)) : c \in Chains, k \in 1..3}
    \cup UNION {UNION {LabelsOn(FinalSweepDump(c, p)) : p \in FinalSweepParams} : c \in Chains}
    \cup UNION {UNION {LabelsOn(UpstreamSweepDump(c, p)) : p \in UpstreamSweepParams(c)} : c \in Chains}

\* C10 as amended: every label classify_chain returns belongs to one closed
\* enumeration, and that enumeration has 8 values: rule 4 has two labels.
C10_EightLabels ==
    /\ Cardinality(Labels) = 8
    /\ \A i \in Classified : LabelOf(i) \in Labels

\* a chain returned as SYSTEMIC_SHORTAGE and, classified after it, a chain
\* returned as another label
C10_ShortageReturned ==
    /\ pc = "done"
    /\ \E i \in Classified : LabelOf(i) = "SYSTEMIC_SHORTAGE"

\* C10 as stated: every label classify_chain can return, over all chains and
\* all inputs, belongs to one closed enumeration of 7 values: the labels
\* returned number at most 7.
C10_SevenLabels ==
    /\ Cardinality(ReturnedLabels) <= 7
    /\ \A i \in Classified : LabelOf(i) \in ReturnedLabels

(***************************************************************************)
(* Determinism and frame of classify_chain.  The program classifies every  *)
(* chain twice on the same goods and facilities: for the summary table     *)
(* (classes) and for the details (details).                                *)
(***************************************************************************)
Detailed == 1..Len(details)

C12_InputsUnchanged ==
    pc \in {"chains", "details", "done"} =>
        LET fresh_goods == aggregate_goods(markets)
            fresh_facilities == aggregate_facilities(counties)
        IN  /\ goods = fresh_goods
            /\ facilities = fresh_facilities
            /\ \A i \in Classified :
                  classes[i] = classify_chain(CHAIN_DEFS[i], fresh_goods, fresh_facilities)
            /\ \A i \in Detailed :
                  details[i] = classify_chain(CHAIN_DEFS[i], fresh_goods, fresh_facilities)

\* all chains classified, twice, on mappings that lack the final good, a raw
\* good and a processing facility type of some chain
C12_ClassifiedWithAbsentKeys ==
    /\ pc = "done"
    /\ \E c \in Chains :
          /\ final_good(CHAIN_DEFS[c]) \notin DOMAIN goods
          /\ \E k \in DOMAIN raw_goods(CHAIN_DEFS[c]) :
                raw_goods(CHAIN_DEFS[c])[k] \notin DOMAIN goods
          /\ \E k \in DOMAIN processing_facilities(CHAIN_DEFS[c]) :
                processing_facilities(CHAIN_DEFS[c])[k] \notin DOMAIN facilities
    /\ \E g \in DOMAIN goods : goods[g].demand > 0

(***************************************************************************)
(* The aggregation.  The properties restate, from the market and facility  *)
(* records of the dump, what the aggregates must hold.                     *)
(***************************************************************************)
GoodsAggregated == pc # "aggregate_goods"

FacilitiesAggregated == pc \notin {"aggregate_goods", "aggregate_facilities"}

\* a fraction lies in [0, 1]
WithinUnit(f) == f.d > 0 /\ 0 <= f.n /\ f.n <= f.d

\* a fraction is 0.0
IsZero(f) == f.d # 0 /\ f.n = 0

\* C13: once the markets are aggregated, every good has short_markets <=
\* active_markets and excess_markets <= active_markets, so its short_fraction
\* and its excess_fraction lie in [0, 1], and both are 0 when active_markets
\* is 0; so do the fractions of the rows of the summary table.
C13_FractionsWithinUnit ==
    /\ GoodsAggregated =>
          \A g \in DOMAIN goods :
              /\ goods[g].short_markets <= goods[g].active_markets
              /\ goods[g].excess_markets <= goods[g].active_markets
              /\ WithinUnit(short_fraction(goods[g]))
              /\ WithinUnit(excess_fraction(goods[g]))
              /\ goods[g].active_markets = 0 =>
                    /\ IsZero(short_fraction(goods[g]))
                    /\ IsZero(excess_fraction(goods[g]))
    /\ \A i \in DOMAIN table :
          /\ WithinUnit(table[i].short_fraction)
          /\ WithinUnit(table[i].excess_fraction)

\* a good listed by markets none of which is active, one of them with a
\* negative supply, and its row printed
C13_ListedButInactive ==
    /\ pc = "done"
    /\ "bread" \in DOMAIN goods
    /\ goods["bread"].active_markets = 0
    /\ goods["bread"].supply < 0
    /\ Len(goods["bread"].prices) >= 2

\* the fraction f is the quotient a / b (b # 0)
IsQuotient(f, a, b) == f.d # 0 /\ f.n * b = a * f.d

\* C14 as stated: the demand/supply ratio is infinity exactly when supply <= 0
\* and demand > 0, and 0.0 exactly when both supply and demand are <= 0.
C14_ZeroOnlyWithoutSupply ==
    \A i \in DOMAIN table :
        /\ IsInf(table[i].demand_over_supply)
              <=> (table[i].supply <= 0 /\ table[i].demand > 0)
        /\ IsZero(table[i].demand_over_supply)
              <=> (table[i].supply <= 0 /\ table[i].demand <= 0)

\* C14 as amended: the demand/supply ratio is infinity exactly when supply <= 0
\* and demand > 0; it is 0.0 when both are <= 0 and also when supply > 0 and
\* demand = 0, where it is the quotient demand / supply as for every supply
\* > 0; for no other combination is it 0.0.
C14_DemandOverSupply ==
    \A i \in DOMAIN table :
        /\ IsInf(table[i].demand_over_supply)
              <=> (table[i].supply <= 0 /\ table[i].demand > 0)
        /\ IsZero(table[i].demand_over_supply)
              <=> \/ (table[i].supply <= 0 /\ table[i].demand <= 0)
                  \/ (table[i].supply > 0 /\ table[i].demand = 0)
        /\ table[i].supply > 0 =>
              IsQuotient(table[i].demand_over_supply, table[i].demand, table[i].supply)

\* a row whose good has a supply and no demand: the ratio is 0.0
C14_SupplyWithoutDemand ==
    \E i \in DOMAIN table :
        /\ table[i].supply > 0
        /\ table[i].demand = 0
        /\ IsZero(table[i].demand_over_supply)

\* the aggregate volume of the good of row i of the summary table
RowVolume(i) ==
    IF table[i].final_good \in DOMAIN goods THEN goods[table[i].final_good].volume ELSE 0

\* C15: fill_ratio is 1.0 whenever demand <= 0, for every value of volume;
\* otherwise it is volume / demand.
C15_FillRatio ==
    \A i \in DOMAIN table :
        IF table[i].demand <= 0
        THEN IsQuotient(table[i].fill_ratio, 1, 1)
        ELSE IsQuotient(table[i].fill_ratio, RowVolume(i), table[i].demand)

\* a row whose good has a volume and a negative demand
C15_VolumeWithoutDemand ==
    \E i \in DOMAIN table :
        /\ table[i].demand < 0
        /\ RowVolume(i) > 0
        /\ IsQuotient(table[i].fill_ratio, 1, 1)

\* the number a leaf field of a record holds: 0 when the field is missing,
\* null or not a number
LeafNumber(rec, key) ==
    IF key \in DOMAIN rec /\ rec[key].kind \notin {"null", "str"} THEN rec[key].num ELSE 0

\* the supply a market's record holds: that of supplyOffered when the record
\* has the key, else that of supply
SupplyIn(q) ==
    IF "supplyOffered" \in DOMAIN q THEN LeafNumber(q, "supplyOffered")
    ELSE LeafNumber(q, "supply")

\* the markets of the dump that list good g
MarketsListing(g) ==
    {k \in DOMAIN markets : "goods" \in DOMAIN markets[k] /\ g \in DOMAIN markets[k].goods}

ListedGoods ==
    UNION {DOMAIN markets[k].goods : k \in {j \in DOMAIN markets : "goods" \in DOMAIN markets[j]}}

SupplyAt(k, g) == SupplyIn(markets[k].goods[g])

DemandAt(k, g) == LeafNumber(markets[k].goods[g], "demand")

VolumeAt(k, g) == LeafNumber(markets[k].goods[g], "volume")

\* the markets listing g in which its supply or its demand is positive
ActiveMarkets(g) ==
    {k \in MarketsListing(g) : SupplyAt(k, g) > 0 \/ DemandAt(k, g) > 0}

\* C16: once the markets are aggregated, a good's active_markets is the number
\* of markets listing the good in which its supply or its demand is strictly
\* positive; a market listing it with supply 0 and demand 0 is not counted,
\* whatever its volume or price.
C16_ActiveMarkets ==
    GoodsAggregated =>
        /\ DOMAIN goods = ListedGoods
        /\ \A g \in DOMAIN goods :
              goods[g].active_markets = Cardinality(ActiveMarkets(g))

\* a good listed by an active market and by a market with a volume, a price,
\* no supply and no demand
C16_VolumeWithoutSupplyOrDemand ==
    /\ pc = "done"
    /\ "bread" \in DOMAIN goods
    /\ goods["bread"].active_markets = 1
    /\ \E k \in MarketsListing("bread") :
          /\ SupplyAt(k, "bread") = 0
          /\ DemandAt(k, "bread") = 0
          /\ VolumeAt(k, "bread") > 0
          /\ LeafNumber(markets[k].goods["bread"], "price") > 0

\* C17: once the markets are aggregated, a good's short_markets is the number
\* of its active markets with demand > supply * 1.05 and its excess_markets
\* the number of its active markets with supply > demand * 1.05: the
\* else-branch of the excess test loses no excess market.
C17_ShortAndExcessMarkets ==
    GoodsAggregated =>
        \A g \in DOMAIN goods :
            /\ goods[g].short_markets =
                  Cardinality({k \in ActiveMarkets(g) : 20 * DemandAt(k, g) > 21 * SupplyAt(k, g)})
            /\ goods[g].excess_markets =
                  Cardinality({k \in ActiveMarkets(g) : 20 * SupplyAt(k, g) > 21 * DemandAt(k, g)})

\* a good with a short market, a market in excess and a market at demand =
\* supply * 1.05, which is neither
C17_ShortExcessAndNeither ==
    /\ pc = "done"
    /\ "bread" \in DOMAIN goods
    /\ goods["bread"].short_markets = 1
    /\ goods["bread"].excess_markets = 1
    /\ \E k \in ActiveMarkets("bread") : 20 * DemandAt(k, "bread") = 21 * SupplyAt(k, "bread")

\* C18: once the markets are aggregated, each good's supply, demand and
\* volume are non-negative.
C18_NonNegativeSums ==
    GoodsAggregated =>
        \A g \in DOMAIN goods :
            /\ goods[g].supply >= 0
            /\ goods[g].demand >= 0
            /\ goods[g].volume >= 0

\* C19 as stated: the aggregator does not guarantee active_markets >=
\* short_markets + excess_markets: the markets of this dump, or some other
\* sequence of market records, lead aggregate_goods to a good with
\* short_markets + excess_markets > active_markets.
C19_ShortPlusExcessExceedsActive ==
    \/ /\ GoodsAggregated
       /\ \E g \in DOMAIN goods :
             goods[g].short_markets + goods[g].excess_markets > goods[g].active_markets
    \/ \E ms \in AggMarketSeqs :
          \E g \in DOMAIN aggregate_goods(ms) :
              aggregate_goods(ms)[g].short_markets + aggregate_goods(ms)[g].excess_markets
                  > aggregate_goods(ms)[g].active_markets

\* C19 as amended: once the markets are aggregated, every good has
\* active_markets >= short_markets + excess_markets: an active market is
\* short, in excess or neither, never both.
C19_ActiveCoversShortPlusExcess ==
    GoodsAggregated =>
        \A g \in DOMAIN goods :
            goods[g].active_markets >= goods[g].short_markets + goods[g].excess_markets

\* a good all of whose active markets are short or in excess, with both
\* kinds: the sum reaches active_markets
C19_ShortPlusExcessReachesActive ==
    /\ pc = "done"
    /\ \E g \in DOMAIN goods :
          /\ goods[g].short_markets >= 1
          /\ goods[g].excess_markets >= 1
          /\ goods[g].short_markets + goods[g].excess_markets = goods[g].active_markets

\* a facility record has a type
HasType(entry) == "type" \in DOMAIN entry /\ entry.type # ""

\* the facility records of county k
EntriesOf(k) ==
    IF "facilities" \in DOMAIN counties[k] THEN counties[k].facilities ELSE << >>

\* the counties of the dump without their records that have no type
CountiesOfTyped ==
    [k \in DOMAIN counties |-> [facilities |-> SelectSeq(EntriesOf(k), HasType)]]

\* the records of type t, as (county, position) pairs
RecordsOfType(t) ==
    UNION {{<<k, i>> : i \in {j \in DOMAIN EntriesOf(k) :
                                 /\ HasType(EntriesOf(k)[j])
                                 /\ EntriesOf(k)[j].type = t}} : k \in DOMAIN counties}

\* C20: aggregate_facilities skips a facility record whose type is missing or
\* empty: the aggregate is that of the dump without these records (no count,
\* active_count, workers, labor_required or sum differs), every key is the
\* type of a typed record and its count is the number of these records.
C20_UntypedSkipped ==
    FacilitiesAggregated =>
        /\ facilities = aggregate_facilities(CountiesOfTyped)
        /\ \A t \in DOMAIN facilities :
              /\ t # ""
              /\ facilities[t].count = Cardinality(RecordsOfType(t))
              /\ facilities[t].count >= 1

\* a county with a record without the type field, a record with an empty
\* type and a typed record
C20_UntypedAmongTyped ==
    /\ pc = "done"
    /\ \E i, j, k \in DOMAIN EntriesOf(1) :
          /\ "type" \notin DOMAIN EntriesOf(1)[i]
          /\ "type" \in DOMAIN EntriesOf(1)[j] /\ EntriesOf(1)[j].type = ""
          /\ HasType(EntriesOf(1)[k])

\* a leaf field of a record is missing, null or not a number
Unparsable(rec, key) == key \notin DOMAIN rec \/ rec[key].kind \in {"null", "str"}

\* the price a market's record holds
PriceAt(k, g) == LeafNumber(markets[k].goods[g], "price")

\* the sum of a leaf field over the records of facility type t
SumOfType(t, key) ==
    SumOver([p \in RecordsOfType(t) |-> LeafNumber(EntriesOf(p[1])[p[2]], key)])

\* C21: aggregate_goods and aggregate_facilities go through records with a
\* missing, null or non-numeric leaf field: such a field adds 0 to its sum
\* (every sum is the sum of the numbers the records hold) and the record is
\* processed as any other: its price is appended, its other fields are added
\* and the facility is counted.
C21_UnparsableCountsAsZero ==
    /\ GoodsAggregated =>
          \A g \in DOMAIN goods :
              /\ goods[g].supply = SumOver([k \in MarketsListing(g) |-> SupplyAt(k, g)])
              /\ goods[g].demand = SumOver([k \in MarketsListing(g) |-> DemandAt(k, g)])
              /\ goods[g].volume = SumOver([k \in MarketsListing(g) |-> VolumeAt(k, g)])
              /\ Len(goods[g].prices) = Cardinality(MarketsListing(g))
              /\ SumSeq(goods[g].prices) = SumOver([k \in MarketsListing(g) |-> PriceAt(k, g)])
    /\ FacilitiesAggregated =>
          \A t \in DOMAIN facilities :
              /\ facilities[t].count = Cardinality(RecordsOfType(t))
              /\ facilities[t].workers = SumOfType(t, "workers")
              /\ facilities[t].labor_required = SumOfType(t, "laborRequired")
              /\ facilities[t].efficiency_sum = SumOfType(t, "efficiency")
              /\ facilities[t].loss_days_sum = SumOfType(t, "consecutiveLossDays")
              /\ facilities[t].wage_debt_sum = SumOfType(t, "wageDebtDays")

\* the dump aggregated: a market record with a null supplyOffered, a demand
\* that is not a number and a null price beside its volume, and a facility
\* record with null workers, a laborRequired that is not a number and no
\* consecutiveLossDays
C21_UnparsableLeaves ==
    /\ pc = "done"
    /\ \E k \in MarketsListing("bread") :
          /\ Unparsable(markets[k].goods["bread"], "supplyOffered")
          /\ Unparsable(markets[k].goods["bread"], "demand")
          /\ Unparsable(markets[k].goods["bread"], "price")
          /\ VolumeAt(k, "bread") > 0
          /\ goods["bread"].volume >= VolumeAt(k, "bread")
    /\ \E t \in DOMAIN facilities : \E p \in RecordsOfType(t) :
          /\ Unparsable(EntriesOf(p[1])[p[2]], "workers")
          /\ Unparsable(EntriesOf(p[1])[p[2]], "laborRequired")
          /\ Unparsable(EntriesOf(p[1])[p[2]], "consecutiveLossDays")
          /\ facilities[t].count >= 1

\* the line of global signals is printed
SignalsPrinted == pc \notin {"aggregate_goods", "aggregate_facilities", "global"}

TotalSupply == LeafNumber(summary, "totalMarketSupply")

TotalDemand == LeafNumber(summary, "totalMarketDemand")

TotalVolume == LeafNumber(summary, "totalMarketVolume")

\* C22: the global summarizer computes fill = totalMarketVolume /
\* totalMarketDemand (1.0 if demand <= 0) and a demand/supply ratio with the
\* convention of the per-good ratio: the quotient when there is supply,
\* infinite if total supply is zero and total demand positive, zero if both
\* are zero.
C22_GlobalRatios ==
    SignalsPrinted =>
        /\ IF TotalDemand <= 0
           THEN IsQuotient(signals.fill, 1, 1)
           ELSE IsQuotient(signals.fill, TotalVolume, TotalDemand)
        /\ TotalSupply > 0 => IsQuotient(signals.demand_over_supply, TotalDemand, TotalSupply)
        /\ (TotalSupply = 0 /\ TotalDemand > 0) => IsInf(signals.demand_over_supply)
        /\ (TotalSupply = 0 /\ TotalDemand = 0) => IsZero(signals.demand_over_supply)

(***************************************************************************)
(* The stages of a chain, as the details print them.                       *)
(***************************************************************************)
SeqRange(q) == {q[j] : j \in DOMAIN q}

\* the goods of stage k of chain i that the goods mapping holds, and the
\* facility types of the stage that the facilities mapping holds
StageGoodsListed(i, k) == SeqRange(CHAIN_DEFS[i].stages[k].goods) \cap DOMAIN goods

StageTypesListed(i, k) == SeqRange(CHAIN_DEFS[i].stages[k].facilities) \cap DOMAIN facilities

\* C23: for every chain of the registry classify_chain returns a label when
\* goods or facility types of the chain are absent from the mappings, and an
\* absent good adds nothing to the supply, demand and volume of its stage,
\* an absent facility type nothing to the facilities of its stage: the stage
\* lines hold the sums over the goods and the types that are present.
C23_AbsentCountsAsZero ==
    /\ pc \in {"details", "done"} =>
          /\ Len(classes) = Len(CHAIN_DEFS)
          /\ \A i \in Classified : LabelOf(i) \in Labels
    /\ \A i \in DOMAIN lines : \A k \in DOMAIN lines[i] :
          /\ lines[i][k].supply = SumOver([g \in StageGoodsListed(i, k) |-> goods[g].supply])
          /\ lines[i][k].demand = SumOver([g \in StageGoodsListed(i, k) |-> goods[g].demand])
          /\ lines[i][k].volume = SumOver([g \in StageGoodsListed(i, k) |-> goods[g].volume])
          /\ lines[i][k].facilities =
                SumOver([t \in StageTypesListed(i, k) |-> facilities[t].count])
          /\ StageTypesListed(i, k) = {} =>
                /\ IsZero(lines[i][k].active)
                /\ IsZero(lines[i][k].labor_fill)

\* the details of a chain with a raw good absent before a raw good with
\* supply, an intermediate good absent, and a processing stage with one
\* facility type absent and another present
C23_AbsentBesidePresent ==
    /\ pc = "done"
    /\ \E i \in DOMAIN lines :
          /\ Len(CHAIN_DEFS[i].stages) = 3
          /\ CHAIN_DEFS[i].stages[1].goods[1] \notin DOMAIN goods
          /\ lines[i][1].supply > 0
          /\ StageGoodsListed(i, 2) = {}
          /\ StageTypesListed(i, 3) # {}
          /\ StageTypesListed(i, 3) # SeqRange(CHAIN_DEFS[i].stages[3].facilities)
          /\ LabelOf(i) # "NO_SIGNAL"

\* the facility types of stage k of chain i with count > 0, their instances,
\* and those among them that require labor
StageTypes(i, k) == {t \in StageTypesListed(i, k) : facilities[t].count > 0}

StageCount(i, k) == SumOver([t \in StageTypes(i, k) |-> facilities[t].count])

StageActiveCount(i, k) == SumOver([t \in StageTypes(i, k) |-> facilities[t].active_count])

StageStaffed(i, k) == {t \in StageTypes(i, k) : facilities[t].labor_required > 0}

\* the sum of count * labor_fill over the types, labor_fill being workers /
\* labor_required, as StageFillNumerator / StageFillDenominator
StageFillDenominator(i, k) ==
    ProductOver([t \in StageStaffed(i, k) |-> facilities[t].labor_required])

StageFillNumerator(i, k) ==
    SumOver([t \in StageStaffed(i, k) |->
                facilities[t].count * facilities[t].workers
                * ProductOver([u \in StageStaffed(i, k) \ {t} |-> facilities[u].labor_required])])

\* the facilities mapping with an entry of count 0 for every type of stage k
\* of chain i that it lacks
WithEmptyTypes(i, k) ==
    [t \in DOMAIN facilities \cup SeqRange(CHAIN_DEFS[i].stages[k].facilities) |->
        IF t \in DOMAIN facilities THEN facilities[t]
        ELSE [FacilityMetrics EXCEPT !.workers = 5, !.labor_required = 1]]

\* C24: for the distinct facility types of a stage, of which one at least has
\* count > 0, weighted_facility_health returns the averages weighted by count:
\* (sum of active_count) / (sum of count), (sum of count * labor_fill) / (sum
\* of count), and the sum of count, over the types with count > 0; a type
\* that is absent or has count 0 changes nothing.
C24_CountWeightedHealth ==
    \A i \in DOMAIN lines : \A k \in DOMAIN lines[i] :
        StageCount(i, k) > 0 =>
            /\ lines[i][k].facilities = StageCount(i, k)
            /\ IsQuotient(lines[i][k].active, StageActiveCount(i, k), StageCount(i, k))
            /\ IsQuotient(lines[i][k].labor_fill, StageFillNumerator(i, k),
                          StageFillDenominator(i, k) * StageCount(i, k))
            /\ LET health == weighted_facility_health(WithEmptyTypes(i, k),
                                                      CHAIN_DEFS[i].stages[k].facilities)
               IN  /\ health.count = lines[i][k].facilities
                   /\ IsQuotient(health.active, lines[i][k].active.n, lines[i][k].active.d)
                   /\ IsQuotient(health.fill, lines[i][k].labor_fill.n,
                                 lines[i][k].labor_fill.d)

\* a stage with two facility types of different counts and ratios, and a
\* type that is absent
C24_TwoTypesOfOneStage ==
    /\ pc = "done"
    /\ \E i \in DOMAIN lines : \E k \in DOMAIN lines[i] :
          /\ \E t, u \in StageTypes(i, k) :
                /\ facilities[t].count > facilities[u].count
                /\ facilities[t].active_count = 0
                /\ facilities[u].active_count > 0
                /\ facilities[u].workers < facilities[u].labor_required
          /\ StageTypesListed(i, k) # SeqRange(CHAIN_DEFS[i].stages[k].facilities)

\* C25: once the counties are aggregated, every facility type of the result
\* has count >= 1 and 0 <= active_count <= count, so its active_ratio lies in
\* [0, 1]; its labor_fill is 0 whenever labor_required <= 0, and none of its
\* derived ratios divides by zero.
C25_FacilityRatios ==
    FacilitiesAggregated =>
        \A t \in DOMAIN facilities :
            /\ facilities[t].count >= 1
            /\ 0 <= facilities[t].active_count
            /\ facilities[t].active_count <= facilities[t].count
            /\ WithinUnit(active_ratio(facilities[t]))
            /\ IsQuotient(active_ratio(facilities[t]), facilities[t].active_count,
                          facilities[t].count)
            /\ facilities[t].labor_required <= 0 => IsZero(labor_fill(facilities[t]))
            /\ facilities[t].labor_required > 0 =>
                  IsQuotient(labor_fill(facilities[t]), facilities[t].workers,
                             facilities[t].labor_required)
            /\ IsQuotient(avg_efficiency(facilities[t]), facilities[t].efficiency_sum,
                          facilities[t].count)

\* the details printed for a facility type with workers and a negative
\* labor_required beside a type all of whose instances are active
C25_WorkersWithoutLaborRequired ==
    /\ pc = "done"
    /\ \E t, u \in DOMAIN facilities :
          /\ facilities[t].labor_required < 0
          /\ facilities[t].workers > 0
          /\ facilities[u].active_count = facilities[u].count
          /\ facilities[u].labor_required > 0

\* the labels of rules 4 to 7
LaterLabels ==
    {"CHAIN_PROCESSING_BOTTLENECK", "SYSTEMIC_SHORTAGE", "SYSTEMIC_OVERSUPPLY",
     "LOCALIZED_DISTRIBUTION_IMBALANCE", "MIXED"}

\* C26: whenever classify_chain returns a label of rules 4 to 7 the final
\* good's aggregate supply is strictly positive, so its demand/supply ratio
\* is finite; whenever it returns CHAIN_PROCESSING_BOTTLENECK the raw stage's
\* aggregate supply is strictly positive and the chain has a processing
\* facility instance.
C26_LaterRulesHaveSupply ==
    \A i \in Classified :
        /\ LabelOf(i) \in LaterLabels =>
              /\ FinalSupply(i) > 0
              /\ ~IsInf(table[i].demand_over_supply)
              /\ IsQuotient(table[i].demand_over_supply, FinalDemand(i), FinalSupply(i))
        /\ LabelOf(i) = "CHAIN_PROCESSING_BOTTLENECK" =>
              /\ RawSupply(i) > 0
              /\ ProcessingCount(i) >= 1

\* a chain returned as CHAIN_PROCESSING_BOTTLENECK, its row printed with a
\* finite demand/supply ratio of 2 or more
C26_BottleneckReturned ==
    /\ pc = "done"
    /\ \E i \in Classified :
          /\ LabelOf(i) = "CHAIN_PROCESSING_BOTTLENECK"
          /\ FinalSupply(i) > 0
          /\ FinalDemand(i) >= 2 * FinalSupply(i)
          /\ ProcessingCount(i) >= 1

(***************************************************************************)
(* What the label depends on.                                              *)
(***************************************************************************)
\* the goods of the stages of chain i between the first and the last
IntermediateGoods(i) ==
    UNION {SeqRange(CHAIN_DEFS[i].stages[k].goods) : k \in 2..(Len(CHAIN_DEFS[i].stages) - 1)}

\* goods and facility types of no stage of chain i
OutsideGoods(i) ==
    (DOMAIN goods \cup {"iron_ore"})
    \ UNION {SeqRange(CHAIN_DEFS[i].stages[k].goods) : k \in DOMAIN CHAIN_DEFS[i].stages}

OutsideTypes(i) ==
    (DOMAIN facilities \cup {"smithy"})
    \ UNION {SeqRange(CHAIN_DEFS[i].stages[k].facilities) : k \in DOMAIN CHAIN_DEFS[i].stages}

\* metrics to put in the place of those the label is claimed not to depend on
OtherGoodMetrics ==
    { [supply |-> 0, demand |-> 9, volume |-> 0, prices |-> <<1>>,
       active_markets |-> 1, short_markets |-> 1, excess_markets |-> 0],
      [supply |-> 50, demand |-> 1, volume |-> 1, prices |-> <<1, 9>>,
       active_markets |-> 2, short_markets |-> 0, excess_markets |-> 2] }

OtherFacilityMetrics ==
    { [count |-> 5, active_count |-> 0, workers |-> 0, labor_required |-> 10,
       efficiency_sum |-> 0, loss_days_sum |-> 9, wage_debt_sum |-> 9],
      [count |-> 1, active_count |-> 1, workers |-> 3, labor_required |-> 3,
       efficiency_sum |-> 1, loss_days_sum |-> 0, wage_debt_sum |-> 0] }

\* the goods mapping with other metrics for the intermediate goods of chain i
\* and the goods outside it, and another volume for its raw goods
OtherGoods(i, gm) ==
    LET changed == IntermediateGoods(i) \cup OutsideGoods(i)
    IN  [g \in DOMAIN goods \cup changed |->
            IF g \in changed THEN gm
            ELSE IF g \in SeqRange(CHAIN_DEFS[i].stages[1].goods)
                 THEN [goods[g] EXCEPT !.volume = goods[g].volume + 7]
                 ELSE goods[g]]

\* the facilities mapping with other metrics for the first-stage types of
\* chain i and the types outside it
OtherFacilities(i, fm) ==
    LET changed == SeqRange(CHAIN_DEFS[i].stages[1].facilities) \cup OutsideTypes(i)
    IN  [t \in DOMAIN facilities \cup changed |->
            IF t \in changed THEN fm ELSE facilities[t]]

\* C27: the label classify_chain returns for a chain depends only on the
\* final good's metrics, the summed supply and demand of the first-stage
\* goods and the metrics of the facility types of the stages after the first:
\* a second input that differs from the state's goods and facilities only in
\* the metrics of intermediate goods, of goods outside the chain, of
\* first-stage facility types or in raw-good volume gets the same label.
C27_LabelIgnoresTheRest ==
    pc \in {"chains", "details", "done"} =>
        \A i \in Classified :
            \A gm \in OtherGoodMetrics, fm \in OtherFacilityMetrics :
                classify_chain(CHAIN_DEFS[i], OtherGoods(i, gm), OtherFacilities(i, fm)).label
                    = LabelOf(i)

\* a chain returned as SYSTEMIC_SHORTAGE on a dump that lists an intermediate
\* good, a good outside the chain and raw goods, and has first-stage
\* facilities
C27_ShortageAmongTheRest ==
    /\ pc = "done"
    /\ \E i \in Classified :
          /\ LabelOf(i) = "SYSTEMIC_SHORTAGE"
          /\ IntermediateGoods(i) \cap DOMAIN goods # {}
          /\ "iron_ore" \in DOMAIN goods
          /\ RawSupply(i) > 0
          /\ SeqRange(CHAIN_DEFS[i].stages[1].facilities) \cap DOMAIN facilities # {}

(***************************************************************************)
(* The order of the market records.                                        *)
(***************************************************************************)
\* the orders in which the market records of the dump can be listed
MarketOrders ==
    {p \in [DOMAIN markets -> DOMAIN markets] :
        \A i, j \in DOMAIN markets : p[i] = p[j] => i = j}

\* the market records of the dump in the order p
Reordered(p) == [i \in DOMAIN markets |-> markets[p[i]]]

\* how many times each price occurs in a sequence of prices
PriceBag(prices) ==
    [v \in SeqRange(prices) |-> Cardinality({i \in DOMAIN prices : prices[i] = v})]

MarketsOffering(g) ==
    {k \in MarketsListing(g) : "supplyOffered" \in DOMAIN markets[k].goods[g]}

\* C29: a good's supply is the sum of supplyOffered over the markets whose
\* record for it has that key, a null or non-numeric supplyOffered counting
\* as 0 whatever the record's supply holds, plus the sum of supply over the
\* markets whose record has no supplyOffered.
C29_SupplyOfferedAlone ==
    GoodsAggregated =>
        \A g \in DOMAIN goods :
            goods[g].supply =
                SumOver([k \in MarketsOffering(g) |->
                            LeafNumber(markets[k].goods[g], "supplyOffered")])
                + SumOver([k \in MarketsListing(g) \ MarketsOffering(g) |->
                            LeafNumber(markets[k].goods[g], "supply")])

\* bread is listed with a null supplyOffered beside a positive supply, with a
\* supplyOffered that differs from the supply beside it, and with a supply
\* alone
C29_OfferedBesideSupply ==
    /\ pc = "done"
    /\ "bread" \in DOMAIN goods
    /\ \E k \in MarketsOffering("bread") :
          /\ markets[k].goods["bread"].supplyOffered = Null
          /\ LeafNumber(markets[k].goods["bread"], "supply") > 0
    /\ \E k \in MarketsOffering("bread") :
          /\ LeafNumber(markets[k].goods["bread"], "supplyOffered") > 0
          /\ "supply" \in DOMAIN markets[k].goods["bread"]
          /\ LeafNumber(markets[k].goods["bread"], "supply")
                # LeafNumber(markets[k].goods["bread"], "supplyOffered")
    /\ \E k \in MarketsListing("bread") \ MarketsOffering("bread") :
          LeafNumber(markets[k].goods["bread"], "supply") > 0

=============================================================================
